---- MODULE Spec2Model ----
(***************************************************************************)
(* Model of electron/ocr-service.py: the command-line OCR adapter.         *)
(*                                                                         *)
(* main() calls extract_text_from_image(), which initialises the engine,   *)
(* checks the image path, runs the engine, copies the engine's lines into  *)
(* `lines`, and then calls detect_page_number(lines) and                   *)
(* create_formatting_blocks(lines).  Every statement group of the source   *)
(* is one action; `pc` is the position in the program.                     *)
(*                                                                         *)
(* Representation.                                                         *)
(*  - A str is a sequence of characters; a character is a one-element      *)
(*    token ("7", "i", " ", ...).  "U+0130" and "U+0131" are the two       *)
(*    non-ASCII letters LATIN CAPITAL LETTER I WITH DOT ABOVE and LATIN    *)
(*    SMALL LETTER DOTLESS I.                                              *)
(*  - A confidence is kept in hundredths (50 stands for 0.5).              *)
(*  - y_coord is kept doubled (bbox[0][1] + bbox[1][1]), so that the mean  *)
(*    of two integer coordinates is exact; the threshold test              *)
(*    abs(y_coord - prev_y) > 30 is then  Abs(2y - 2prev) > 2 * 30.        *)
(*  - Python's None / an unbound local is the record None; a bound value   *)
(*    v of an optional is Some(v).                                         *)
(***************************************************************************)
EXTENDS Integers, Sequences, FiniteSets, TLC

(***************************************************************************)
(* Bounds of the model.                                                    *)
(***************************************************************************)
\* longest OCR page of the pipeline family (free text, confidence, bbox)
MaxResultLen == 2
\* longest page of the geometry family (paragraph grouping)
MaxGroupLines == 3
\* longest page of the window family (page-number window)
MaxWindowLines == 7
\* longest text of the single-line text family (pattern matching)
MaxTextLen == 3
\* number of successive calls of extract_text_from_image in SpecCalls
MaxCalls == 3

(***************************************************************************)
(* Program constants.                                                      *)
(***************************************************************************)
\* the paragraph-break threshold of create_formatting_blocks
ParagraphGap == 30
\* the size of each of the two page-number sub-windows
WindowSize == 3

(***************************************************************************)
(* Generic helpers.                                                        *)
(***************************************************************************)
None == [some |-> FALSE]
Some(v) == [some |-> TRUE, val |-> v]

Min(a, b) == IF a <= b THEN a ELSE b
Max(a, b) == IF a >= b THEN a ELSE b
Abs(a) == IF a < 0 THEN -a ELSE a

Range(s) == {s[k] : k \in DOMAIN s}

\* all sequences over S of length at most n
SeqsUpTo(S, n) == UNION {[1..k -> S] : k \in 0..n}

(***************************************************************************)
(* Python built-ins used by the source.                                    *)
(***************************************************************************)
\* s[:k] for k >= 0
SliceTo(s, k) == SubSeq(s, 1, Min(k, Len(s)))

\* s[-k:] for k > 0
SliceLast(s, k) == SubSeq(s, Max(Len(s) - k, 0) + 1, Len(s))

\* characters str.strip() removes (those that occur in the model's texts)
Whitespace == {" ", "\t", "\n"}

\* str.strip(): drop leading and trailing whitespace
str_strip(s) ==
    LET keep == {k \in DOMAIN s : s[k] \notin Whitespace}
    IN  IF keep = {} THEN <<>>
        ELSE LET lo == CHOOSE k \in keep : \A j \in keep : k <= j
                 hi == CHOOSE k \in keep : \A j \in keep : k >= j
             IN  SubSeq(s, lo, hi)

\* the characters [0-9] matches (a str pattern class of ASCII digits)
DigitClass == {"0", "1", "2", "3", "4", "5", "6", "7", "8", "9"}

\* the characters [IVXLCDM] matches under re.IGNORECASE on a str pattern:
\* the seven letters in both cases and, by Unicode simple case folding,
\* U+0130 and U+0131 (both fold with "i"/"I")
RomanClassIgnoreCase ==
    {"I", "V", "X", "L", "C", "D", "M", "i", "v", "x", "l", "c", "d", "m",
     "U+0130", "U+0131"}

\* re.match(r'^[0-9]+$', text)
MatchesDigits(text) ==
    Len(text) > 0 /\ \A k \in DOMAIN text : text[k] \in DigitClass

\* re.match(r'^[IVXLCDM]+$', text, re.IGNORECASE)
MatchesRoman(text) ==
    Len(text) > 0 /\ \A k \in DOMAIN text : text[k] \in RomanClassIgnoreCase

\* str.upper() of one character (spelt out for the letters the patterns
\* accept and for "a"; digits, blanks and U+0130 are their own upper case)
char_upper(c) ==
    CASE c = "i" -> "I" [] c = "v" -> "V" [] c = "x" -> "X" [] c = "l" -> "L"
      [] c = "c" -> "C" [] c = "d" -> "D" [] c = "m" -> "M" [] c = "a" -> "A"
      [] c = "U+0131" -> "I"
      [] OTHER -> c

\* str.upper()
str_upper(s) == [k \in DOMAIN s |-> char_upper(s[k])]

\* "\n".join(texts)
RECURSIVE str_join(_)
str_join(texts) ==
    IF Len(texts) = 0 THEN <<>>
    ELSE IF Len(texts) = 1 THEN texts[1]
    ELSE texts[1] \o <<"\n">> \o str_join(Tail(texts))


(***************************************************************************)
(* The engine's output.  ocr_engine.ocr() returns a list of pages; a page  *)
(* is a list of entries [bbox, (text, confidence)]; an empty list stands   *)
(* for every falsy value (None, []).                                       *)
(***************************************************************************)
Entry(bbox, text, confidence) == <<bbox, <<text, confidence>>>>

\* a four-point box whose top-left and top-right corners lie at yl and yr
Box(yl, yr) == <<<<0, yl>>, <<100, yr>>, <<100, yr + 20>>, <<0, yl + 20>>>>

\* well-formed boxes with vertical positions 0, 30, 30.5 and 60.5; the third
\* has exactly two points
BoxA == Box(0, 0)
BoxB == Box(0, 60)
BoxC == <<<<0, 0>>, <<100, 61>>>>
BoxD == Box(60, 61)
\* malformed boxes: one point, and no point
OnePoint == <<<<0, 0>>>>
NoPoint == <<>>

\* pipeline family: falsy entries, every confidence, good and empty boxes
PipelineEntries ==
    {<<>>} \cup
    {Entry(b, t, c) : b \in {BoxA, NoPoint}, t \in {<<"7">>, <<"a">>},
                      c \in {0, 50, 100}}

\* geometry family: every vertical gap around the threshold, one-point boxes
GroupEntries ==
    {Entry(b, t, 100) : b \in {BoxA, BoxB, BoxC, BoxD, OnePoint},
                        t \in {<<"a">>, <<"b">>}}

\* window family: a digit line, a Roman line and a line that matches nothing
WindowEntries ==
    {Entry(BoxA, t, 100) : t \in {<<"7">>, <<"i", "V">>, <<"a">>}}

\* text family: one line carrying any short text over these characters
TextChars == {" ", "7", "i", "V", "a", "U+0130"}
TextPages == {<<Entry(BoxA, t, 100)>> : t \in SeqsUpTo(TextChars, MaxTextLen)}

\* five lines at vertical positions 0, 5, 10, 100, 105
GapExample ==
    <<Entry(Box(0, 0), <<"a">>, 100), Entry(Box(5, 5), <<"b">>, 100),
      Entry(Box(10, 10), <<"a">>, 100), Entry(Box(100, 100), <<"b">>, 100),
      Entry(Box(105, 105), <<"a">>, 100)>>

\* twelve lines: "iv", "Chapter One", nine lines of running text, "12"
WindowExample ==
    <<Entry(BoxA, <<"i", "v">>, 100),
      Entry(BoxA, <<"C", "h", "a", "p", "t", "e", "r", " ", "O", "n", "e">>, 100)>>
    \o [k \in 1..9 |-> Entry(BoxA, <<"t", "e", "x", "t">>, 100)]
    \o <<Entry(BoxA, <<"1", "2">>, 100)>>

Pages ==
    SeqsUpTo(PipelineEntries, MaxResultLen)
    \cup SeqsUpTo(GroupEntries, MaxGroupLines)
    \cup SeqsUpTo(WindowEntries, MaxWindowLines)
    \cup TextPages
    \cup {GapExample, WindowExample}

\* what ocr_engine.ocr(image_path, cls=True) may return
OcrResults == {<<>>} \cup {<<p>> : p \in Pages}

\* the results drawn by the repeated calls of SpecCalls
CallResults ==
    {<<<<<<>>>>>>,
     <<<<Entry(BoxA, <<"7">>, 100)>>>>,
     <<<<Entry(BoxA, <<"a">>, 100), Entry(BoxD, <<"i", "V">>, 100)>>>>,
     <<<<Entry(BoxA, <<"a">>, 100), Entry(BoxB, <<"b">>, 100),
         Entry(BoxA, <<"a">>, 100), Entry(BoxD, <<" ", "7">>, 100)>>>>,
     <<<<Entry(BoxA, <<"a">>, 100), Entry(OnePoint, <<"7">>, 100)>>>>}

(***************************************************************************)
(* Exceptions and result dictionaries.  A message is a sequence of words.  *)
(***************************************************************************)
\* raised by bbox[0] / bbox[1] on a list that is too short
IndexError == [type |-> "IndexError", message |-> <<"list index out of range">>]
\* any failure inside the engine
EngineError == [type |-> "RuntimeError", message |-> <<"engine failure">>]

\* the classes `except Exception` catches
ExceptionClasses == {"IndexError", "RuntimeError"}

Failure(message) == [success |-> FALSE, error |-> message]

(***************************************************************************)
(* State.                                                                  *)
(***************************************************************************)
VARIABLES
    pc,                 \* position in the program
    ocr_engine,         \* the module global: "None" or "PaddleOCR"
    calls,              \* calls of extract_text_from_image begun so far
    result,             \* extract_text_from_image: the engine's return value
    li,                 \* extract_text_from_image: index of `for line in result[0]`
    lines,              \* extract_text_from_image: the recognized lines
    total_confidence,   \* extract_text_from_image (hundredths)
    block_count,        \* extract_text_from_image
    full_text,          \* extract_text_from_image
    avg_confidence,     \* extract_text_from_image
    page_number,        \* value returned by detect_page_number
    formatting_blocks,  \* value returned by create_formatting_blocks
    check_lines,        \* detect_page_number
    ci,                 \* detect_page_number: index of `for line in check_lines`
    blocks,             \* create_formatting_blocks
    current_paragraph,  \* create_formatting_blocks
    prev_y,             \* create_formatting_blocks (doubled)
    gi,                 \* create_formatting_blocks: index of `for line in lines`
    exc,                \* the exception in flight, if any
    ret,                \* value returned by extract_text_from_image
    exit_code,          \* the process's exit status
    history             \* per call, the lines passed to the two heuristics
                        \* and what each returned (blocks None: it raised)

vars ==
    <<pc, ocr_engine, calls, result, li, lines, total_confidence, block_count,
      full_text, avg_confidence, page_number, formatting_blocks, check_lines,
      ci, blocks, current_paragraph, prev_y, gi, exc, ret, exit_code, history>>

\* the locals of extract_text_from_image and of the functions it calls
locals ==
    <<result, li, lines, total_confidence, block_count, full_text,
      avg_confidence, page_number, formatting_blocks, check_lines, ci, blocks,
      current_paragraph, prev_y, gi, exc, ret>>

\* the locals of detect_page_number
detect_locals == <<check_lines, ci>>

\* the locals of create_formatting_blocks
group_locals == <<blocks, current_paragraph, prev_y, gi>>

\* everything extract_text_from_image owns besides the two values returned
\* to it by the heuristics
extract_locals ==
    <<result, li, lines, total_confidence, block_count, full_text, avg_confidence>>

\* a fresh frame: every local unbound
FreshFrame ==
    /\ result = <<>>
    /\ li = 0
    /\ lines = <<>>
    /\ total_confidence = 0
    /\ block_count = 0
    /\ full_text = <<>>
    /\ avg_confidence = 0
    /\ page_number = None
    /\ formatting_blocks = None
    /\ check_lines = <<>>
    /\ ci = 0
    /\ blocks = <<>>
    /\ current_paragraph = <<>>
    /\ prev_y = None
    /\ gi = 0
    /\ exc = None
    /\ ret = None

Init ==
    /\ pc = "main"
    /\ ocr_engine = "None"
    /\ calls = 0
    /\ FreshFrame
    /\ exit_code = None
    /\ history = {}

(***************************************************************************)
(* Pure parts of the two heuristics.                                       *)
(***************************************************************************)
\* a faulty window: the last 3 lines are scanned before the first 3
window_last_first(ls) ==
    (IF Len(ls) > WindowSize THEN SliceLast(ls, WindowSize) ELSE <<>>)
    \o (IF Len(ls) > 0 THEN SliceTo(ls, WindowSize) ELSE <<>>)

\* a faulty window: the last 3 lines are added already for 3 lines
window_at_least(ls) ==
    (IF Len(ls) > 0 THEN SliceTo(ls, WindowSize) ELSE <<>>)
    \o (IF Len(ls) >= WindowSize THEN SliceLast(ls, WindowSize) ELSE <<>>)

\* detect_page_number: the candidate window
window(ls) ==
    (IF Len(ls) > 0 THEN SliceTo(ls, WindowSize) ELSE <<>>)
    \o (IF Len(ls) > WindowSize THEN SliceLast(ls, WindowSize) ELSE <<>>)

\* detect_page_number: the body of `for line in check_lines` for one line;
\* Some(value returned) or None (fall through to the next line)
candidate(line) ==
    LET text == str_strip(line.text)
    IN  IF MatchesDigits(text) THEN Some(text)
        ELSE IF MatchesRoman(text) THEN Some(str_upper(text))
        ELSE None

\* a faulty y_coord: a box that is too short silently counts as position 0
y_coord_defaulting(bbox) ==
    IF Len(bbox) < 1 \/ Len(bbox[1]) < 2 THEN [raised |-> FALSE, val |-> 0]
    ELSE IF Len(bbox) < 2 \/ Len(bbox[2]) < 2 THEN [raised |-> FALSE, val |-> 0]
    ELSE [raised |-> FALSE, val |-> bbox[1][2] + bbox[2][2]]

\* a faulty y_coord: the indices are off by one, (bbox[1][1] + bbox[2][1]) / 2
y_coord_off_by_one(bbox) ==
    IF Len(bbox) < 2 \/ Len(bbox[2]) < 2 THEN [raised |-> TRUE]
    ELSE IF Len(bbox) < 3 \/ Len(bbox[3]) < 2 THEN [raised |-> TRUE]
    ELSE [raised |-> FALSE, val |-> bbox[2][2] + bbox[3][2]]

\* create_formatting_blocks: (bbox[0][1] + bbox[1][1]) / 2, doubled; indexing
\* a list beyond its end raises IndexError
y_coord(bbox) ==
    IF Len(bbox) < 1 \/ Len(bbox[1]) < 2 THEN [raised |-> TRUE]
    ELSE IF Len(bbox) < 2 \/ Len(bbox[2]) < 2 THEN [raised |-> TRUE]
    ELSE [raised |-> FALSE, val |-> bbox[1][2] + bbox[2][2]]

\* a faulty threshold test: a gap of exactly 30 breaks too
large_gap_inclusive(prev, y) ==
    prev.some /\ Abs(y - prev.val) >= 2 * ParagraphGap

\* create_formatting_blocks: prev_y is not None and abs(y_coord - prev_y) > 30
large_gap(prev, y) ==
    prev.some /\ Abs(y - prev.val) > 2 * ParagraphGap

Paragraph(texts) == [type |-> "paragraph", lines |-> texts]

\* create_formatting_blocks: the flush inside the loop
flushed(bs, paragraph) ==
    IF Len(paragraph) > 0 THEN Append(bs, Paragraph(paragraph)) ELSE bs

\* a faulty return: the last paragraph is not flushed
last_flush_dropped(bs, paragraph) == bs

\* create_formatting_blocks: "Add last paragraph" and the value returned
last_flush(bs, paragraph) ==
    IF Len(paragraph) > 0 THEN Append(bs, Paragraph(paragraph)) ELSE bs

\* a faulty handler: only the engine's failures are caught
caught_engine_only(e) == e.type = "RuntimeError"

\* extract_text_from_image: `except Exception` catches e
caught(e) == e.type \in ExceptionClasses

(***************************************************************************)
(* Actions.                                                                *)
(***************************************************************************)
\* main: parse the arguments and call extract_text_from_image
main_start ==
    /\ pc = "main"
    /\ pc' = "init_ocr"
    /\ calls' = calls + 1
    /\ UNCHANGED <<ocr_engine, locals, exit_code, history>>

\* extract_text_from_image calls init_ocr; a failed construction makes it
\* return the initialisation failure
init_ocr ==
    /\ pc = "init_ocr"
    /\ IF ocr_engine = "None"
       THEN \E constructed \in BOOLEAN :
              IF constructed
              THEN /\ ocr_engine' = "PaddleOCR"
                   /\ pc' = "exists"
                   /\ ret' = ret
              ELSE /\ ocr_engine' = ocr_engine
                   /\ pc' = "print"
                   /\ ret' = Some(Failure(<<"Failed to initialize OCR engine">>))
       ELSE /\ pc' = "exists"
            /\ UNCHANGED <<ocr_engine, ret>>
    /\ UNCHANGED <<calls, extract_locals, page_number, formatting_blocks,
                   detect_locals, group_locals, exc, exit_code, history>>

\* extract_text_from_image: Path(image_path).exists()
path_exists ==
    /\ pc = "exists"
    /\ \E exists \in BOOLEAN :
         IF exists
         THEN pc' = "ocr" /\ ret' = ret
         ELSE pc' = "print" /\ ret' = Some(Failure(<<"Image file not found:", "image_path">>))
    /\ UNCHANGED <<ocr_engine, calls, extract_locals, page_number,
                   formatting_blocks, detect_locals, group_locals, exc,
                   exit_code, history>>

\* extract_text_from_image: run the engine; an empty result returns at once
perform_ocr(Results) ==
    /\ pc = "ocr"
    /\ \E raises \in BOOLEAN, r \in Results :
         IF raises
         THEN /\ exc' = Some(EngineError)
              /\ pc' = "except"
              /\ UNCHANGED <<result, li, ret>>
         ELSE /\ result' = r
              /\ exc' = exc
              /\ IF Len(r) = 0 \/ Len(r[1]) = 0
                 THEN /\ ret' = Some([success |-> TRUE, text |-> <<>>,
                                      confidence |-> 0, blocks |-> <<>>,
                                      page_number |-> None])
                      /\ pc' = "print"
                      /\ li' = li
                 ELSE /\ ret' = ret
                      /\ pc' = "parse"
                      /\ li' = 1
    /\ UNCHANGED <<ocr_engine, calls, lines, total_confidence, block_count,
                   full_text, avg_confidence, page_number, formatting_blocks,
                   detect_locals, group_locals, exit_code, history>>

\* extract_text_from_image: one iteration of `for line in result[0]`
parse_line ==
    /\ pc = "parse"
    /\ li <= Len(result[1])
    /\ LET line == result[1][li]
       IN  IF Len(line) > 0
           THEN /\ lines' = Append(lines, [text |-> line[2][1],
                                           confidence |-> line[2][2],
                                           bbox |-> line[1]])
                /\ total_confidence' = total_confidence + line[2][2]
                /\ block_count' = block_count + 1
           ELSE UNCHANGED <<lines, total_confidence, block_count>>
    /\ li' = li + 1
    /\ UNCHANGED <<pc, ocr_engine, calls, result, full_text, avg_confidence,
                   page_number, formatting_blocks, detect_locals, group_locals,
                   exc, ret, exit_code, history>>

\* extract_text_from_image: join the text, average the confidence and call
\* detect_page_number(lines)
aggregate ==
    /\ pc = "parse"
    /\ li > Len(result[1])
    /\ full_text' = str_join([k \in DOMAIN lines |-> lines[k].text])
    /\ avg_confidence' =
         IF block_count > 0 THEN total_confidence \div block_count ELSE 0
    /\ pc' = "detect"
    /\ UNCHANGED <<ocr_engine, calls, result, li, lines, total_confidence,
                   block_count, page_number, formatting_blocks, detect_locals,
                   group_locals, exc, ret, exit_code, history>>

\* a faulty detect_page_number: check_lines starts as the list `lines` itself
\* (check_lines = lines), so extending it extends the caller's list
detect_window_aliased ==
    /\ pc = "detect"
    /\ lines' = lines \o (IF Len(lines) > WindowSize
                          THEN SliceLast(lines, WindowSize) ELSE <<>>)
    /\ check_lines' = lines'
    /\ ci' = 1
    /\ pc' = "scan"
    /\ UNCHANGED <<ocr_engine, calls, result, li, total_confidence,
                   block_count, full_text, avg_confidence, page_number,
                   formatting_blocks, group_locals, exc, ret, exit_code, history>>

\* detect_page_number: build check_lines
detect_window ==
    /\ pc = "detect"
    /\ check_lines' = window(lines)
    /\ ci' = 1
    /\ pc' = "scan"
    /\ UNCHANGED <<ocr_engine, calls, extract_locals, page_number,
                   formatting_blocks, group_locals, exc, ret, exit_code, history>>

\* detect_page_number: one iteration of `for line in check_lines`, or the
\* final `return None`; on return extract_text_from_image calls
\* create_formatting_blocks(lines)
detect_scan ==
    /\ pc = "scan"
    /\ IF ci <= Len(check_lines)
       THEN LET found == candidate(check_lines[ci])
            IN  IF found.some
                THEN page_number' = found /\ pc' = "group" /\ ci' = ci
                ELSE page_number' = page_number /\ pc' = pc /\ ci' = ci + 1
       ELSE page_number' = None /\ pc' = "group" /\ ci' = ci
    /\ UNCHANGED <<ocr_engine, calls, extract_locals, formatting_blocks,
                   check_lines, group_locals, exc, ret, exit_code, history>>

\* create_formatting_blocks: `if not lines: return []`, else the three
\* initialisations
group_start ==
    /\ pc = "group"
    /\ IF Len(lines) = 0
       THEN /\ formatting_blocks' = Some(<<>>)
            /\ pc' = "return"
            /\ UNCHANGED group_locals
       ELSE /\ blocks' = <<>>
            /\ current_paragraph' = <<>>
            /\ prev_y' = None
            /\ gi' = 1
            /\ pc' = "group_loop"
            /\ formatting_blocks' = formatting_blocks
    /\ UNCHANGED <<ocr_engine, calls, extract_locals, page_number,
                   detect_locals, exc, ret, exit_code, history>>

\* create_formatting_blocks: one iteration of `for line in lines`
group_step ==
    /\ pc = "group_loop"
    /\ gi <= Len(lines)
    /\ LET y == y_coord(lines[gi].bbox)
       IN  IF y.raised
           THEN /\ exc' = Some(IndexError)
                /\ pc' = "except"
                /\ history' = history \cup
                     {[call |-> calls, lines |-> lines,
                       page_number |-> page_number, blocks |-> None]}
                /\ UNCHANGED group_locals
           ELSE LET break == large_gap(prev_y, y.val)
                IN  /\ blocks' = IF break THEN flushed(blocks, current_paragraph)
                                 ELSE blocks
                    /\ current_paragraph' =
                         Append(IF break THEN <<>> ELSE current_paragraph,
                                lines[gi].text)
                    /\ prev_y' = Some(y.val)
                    /\ gi' = gi + 1
                    /\ UNCHANGED <<pc, exc, history>>
    /\ UNCHANGED <<ocr_engine, calls, extract_locals, page_number,
                   formatting_blocks, detect_locals, ret, exit_code>>

\* create_formatting_blocks: the last paragraph and `return blocks`
group_finish ==
    /\ pc = "group_loop"
    /\ gi > Len(lines)
    /\ blocks' = last_flush(blocks, current_paragraph)
    /\ formatting_blocks' = Some(blocks')
    /\ pc' = "return"
    /\ UNCHANGED <<ocr_engine, calls, extract_locals, page_number,
                   detect_locals, current_paragraph, prev_y, gi, exc, ret,
                   exit_code, history>>

\* extract_text_from_image: the result of a processed page
extract_return ==
    /\ pc = "return"
    /\ ret' = Some([success |-> TRUE, text |-> full_text,
                    confidence |-> avg_confidence,
                    blocks |-> formatting_blocks.val,
                    page_number |-> page_number,
                    total_lines |-> Len(lines)])
    /\ history' = history \cup
         {[call |-> calls, lines |-> lines, page_number |-> page_number,
           blocks |-> formatting_blocks]}
    /\ pc' = "print"
    /\ UNCHANGED <<ocr_engine, calls, extract_locals, page_number,
                   formatting_blocks, detect_locals, group_locals, exc,
                   exit_code>>

\* extract_text_from_image: `except Exception as e`; an exception the handler
\* does not catch leaves the function and ends the process with a traceback
extract_except ==
    /\ pc = "except"
    /\ IF caught(exc.val)
       THEN /\ ret' = Some(Failure(<<"OCR processing failed:">> \o exc.val.message))
            /\ exc' = None
            /\ pc' = "print"
            /\ exit_code' = exit_code
       ELSE /\ exit_code' = Some(1)
            /\ pc' = "exited"
            /\ UNCHANGED <<exc, ret>>
    /\ UNCHANGED <<ocr_engine, calls, extract_locals, page_number,
                   formatting_blocks, detect_locals, group_locals, history>>

\* main: print the result and exit
main_exit ==
    /\ pc = "print"
    /\ exit_code' = Some(IF ret.val.success THEN 0 ELSE 1)
    /\ pc' = "exited"
    /\ UNCHANGED <<ocr_engine, calls, locals, history>>

\* a caller that imported the module calls extract_text_from_image again.
\* The module global is kept and extract_text_from_image starts with a new
\* frame; the locals of the two heuristics are unbound until their first
\* assignment, which the model shows by leaving the previous call's values
\* in them
call_again ==
    /\ pc = "print"
    /\ calls < MaxCalls
    /\ result' = <<>>
    /\ li' = 0
    /\ lines' = <<>>
    /\ total_confidence' = 0
    /\ block_count' = 0
    /\ full_text' = <<>>
    /\ avg_confidence' = 0
    /\ page_number' = None
    /\ formatting_blocks' = None
    /\ exc' = None
    /\ ret' = None
    /\ calls' = calls + 1
    /\ pc' = "init_ocr"
    /\ UNCHANGED <<ocr_engine, detect_locals, group_locals, exit_code, history>>

(***************************************************************************)
(* Specifications.                                                         *)
(***************************************************************************)
\* one run of the program on any engine output
Next ==
    \/ main_start
    \/ init_ocr
    \/ path_exists
    \/ perform_ocr(OcrResults)
    \/ parse_line
    \/ aggregate
    \/ detect_window
    \/ detect_scan
    \/ group_start
    \/ group_step
    \/ group_finish
    \/ extract_return
    \/ extract_except
    \/ main_exit

Spec == Init /\ [][Next]_vars

\* successive calls of extract_text_from_image in one process
NextCalls ==
    \/ main_start
    \/ init_ocr
    \/ path_exists
    \/ perform_ocr(CallResults)
    \/ parse_line
    \/ aggregate
    \/ detect_window
    \/ detect_scan
    \/ group_start
    \/ group_step
    \/ group_finish
    \/ extract_return
    \/ extract_except
    \/ main_exit
    \/ call_again

SpecCalls == Init /\ [][NextCalls]_vars

(***************************************************************************)
(* Vocabulary of the properties.                                           *)
(***************************************************************************)
\* (the three predicates below read a single run of the program, Spec)
\* detect_page_number was called and has returned
DetectReturned == ci > 0 /\ pc # "scan"

\* create_formatting_blocks has returned
GroupReturned == formatting_blocks.some

\* create_formatting_blocks was left by an exception
GroupRaised == gi > 0 /\ pc # "group_loop" /\ ~formatting_blocks.some

\* the lines whose bounding box has fewer than two points
Malformed(ls) == {k \in DOMAIN ls : Len(ls[k].bbox) < 2}

Texts(ls) == [k \in DOMAIN ls |-> ls[k].text]

\* the concatenation of the blocks' line lists, in block order
RECURSIVE Flatten(_)
Flatten(bs) ==
    IF Len(bs) = 0 THEN <<>> ELSE bs[1].lines \o Flatten(Tail(bs))

\* twice the mean of the y-coordinates of the first two points of line k
TwiceMeanY(ls, k) == ls[k].bbox[1][2] + ls[k].bbox[2][2]

\* the first lines of the maximal runs in which neighbours differ by at most 30
RunStarts(ls) ==
    {1} \cup {k \in 2..Len(ls) : Abs(TwiceMeanY(ls, k) - TwiceMeanY(ls, k - 1)) > 60}

\* the maximal runs, in order, as paragraph blocks
Runs(ls) ==
    LET starts == RunStarts(ls)
        nth(n) == CHOOSE s \in starts : Cardinality({t \in starts : t < s}) = n - 1
        last(s) == IF \E t \in starts : t > s
                   THEN (CHOOSE t \in starts :
                           t > s /\ \A u \in starts : u > s => t <= u) - 1
                   ELSE Len(ls)
    IN  [n \in 1..Cardinality(starts) |->
           [type |-> "paragraph", lines |-> SubSeq(Texts(ls), nth(n), last(nth(n)))]]

\* the indices examined, in order: the first 3 lines (all when there are
\* fewer), then the last 3 lines when there are more than 3
WindowIndices(n) ==
    [k \in 1..(IF n < 3 THEN n ELSE 3) |-> k]
    \o (IF n > 3 THEN <<n - 2, n - 1, n>> ELSE <<>>)

\* the lines of ls in the order in which they are examined
InWindowOrder(ls) ==
    [k \in DOMAIN WindowIndices(Len(ls)) |-> ls[WindowIndices(Len(ls))[k]]]

\* the first outcome of `outcomes` that is a match, None when there is none
FirstMatch(outcomes) ==
    LET hits == {k \in DOMAIN outcomes : outcomes[k].some}
    IN  IF hits = {} THEN None
        ELSE outcomes[CHOOSE k \in hits : \A j \in hits : k <= j]

\* the patterns as documented: ASCII digits; the seven Roman letters in
\* either case
AsciiDigits == {"0", "1", "2", "3", "4", "5", "6", "7", "8", "9"}
RomanLetters ==
    {"I", "V", "X", "L", "C", "D", "M", "i", "v", "x", "l", "c", "d", "m"}
DocumentedCandidate(line) ==
    LET text == str_strip(line.text)
    IN  IF Len(text) > 0 /\ Range(text) \subseteq AsciiDigits THEN Some(text)
        ELSE IF Len(text) > 0 /\ Range(text) \subseteq RomanLetters
             THEN Some(str_upper(text))
        ELSE None

(***************************************************************************)
(* Properties.                                                             *)
(***************************************************************************)
\* C1: whenever create_formatting_blocks returns, the concatenation of the
\* returned blocks' line lists, in block order, is exactly the sequence of the
\* input lines' texts in their original order.
C1_ConcatenationIsInput ==
    GroupReturned => Flatten(formatting_blocks.val) = Texts(lines)

\* C1 happens: a page was split into several blocks, one of them of two lines
C1_Witness ==
    /\ GroupReturned
    /\ Len(formatting_blocks.val) >= 2
    /\ \E k \in DOMAIN formatting_blocks.val :
         Len(formatting_blocks.val[k].lines) >= 2

\* C2: for a non-empty input the returned blocks are exactly the maximal runs
\* of consecutive lines whose neighbouring vertical positions (mean of the
\* y-coordinates of the first two points) differ by at most 30; positions
\* 0, 5, 10, 100, 105 give the blocks of lines 0-2 and of lines 3-4.
C2_BlocksAreMaximalRuns ==
    /\ GroupReturned /\ Len(lines) > 0 => formatting_blocks.val = Runs(lines)
    /\ GroupReturned /\ result = <<GapExample>> =>
         formatting_blocks.val =
           <<[type |-> "paragraph", lines |-> <<<<"a">>, <<"b">>, <<"a">>>>],
             [type |-> "paragraph", lines |-> <<<<"b">>, <<"a">>>>]>>

\* C2 happens: neighbours exactly 30 apart stay together although the
\* paragraph's first and last lines are more than 30 apart, and a gap of 30.5
\* elsewhere breaks
C2_Witness ==
    /\ GroupReturned
    /\ Len(lines) = 3
    /\ TwiceMeanY(lines, 2) - TwiceMeanY(lines, 1) = 61
    /\ TwiceMeanY(lines, 3) - TwiceMeanY(lines, 2) = 60
    /\ Len(formatting_blocks.val) = 2

\* C3: detect_page_number returns the outcome of the first candidate that
\* matches either pattern, scanning the first 3 lines in order and then the
\* last 3 lines in order, and None when no candidate matches; twelve lines
\* that start with "iv" and end with "12" give "IV".
C3_FirstMatchWins ==
    /\ DetectReturned =>
         page_number =
           FirstMatch([k \in DOMAIN InWindowOrder(lines) |->
                         candidate(InWindowOrder(lines)[k])])
    /\ DetectReturned /\ result = <<WindowExample>> =>
         page_number = Some(<<"I", "V">>)

\* C3 happens: a Roman numeral among the first 3 lines wins over a digit line
\* that is only among the last 3
C3_Witness ==
    /\ DetectReturned
    /\ Len(lines) = 7
    /\ lines[3].text = <<"i", "V">>
    /\ lines[1].text = <<"a">> /\ lines[2].text = <<"a">>
    /\ lines[7].text = <<"7">>
    /\ page_number = Some(<<"I", "V">>)

\* C4: a candidate matches exactly when its trimmed text consists of one or
\* more ASCII digits (the trimmed text is returned) or else of one or more of
\* the letters I, V, X, L, C, D, M in either case (the trimmed text is returned
\* upper-cased); every other text does not match and the scan continues.
C4_DocumentedPatterns ==
    DetectReturned =>
      page_number =
        FirstMatch([k \in DOMAIN InWindowOrder(lines) |->
                      DocumentedCandidate(InWindowOrder(lines)[k])])

\* C5: the candidate window is the first 3 lines (all lines when there are
\* fewer than 3) followed by the last 3 lines only when there are more than 3
\* lines, without deduplication and never more than 6 candidates; a line that
\* is in neither sub-window is never examined, so what is returned is always
\* the outcome of a line in the window.
C5_WindowIsFirstAndLastThree ==
    /\ ci > 0 =>
         /\ check_lines = InWindowOrder(lines)
         /\ Len(check_lines) <= 6
         /\ Len(lines) <= 3 => Len(check_lines) = Len(lines)
         /\ Len(lines) > 3 => Len(check_lines) = 6
    /\ DetectReturned /\ page_number.some =>
         \E k \in DOMAIN lines :
            /\ k <= 3 \/ k > Len(lines) - 3
            /\ candidate(lines[k]) = page_number

\* C5 happens: the only page number of a 7-line page is on its middle line,
\* and nothing is returned
C5_Witness ==
    /\ DetectReturned
    /\ Len(lines) = 7
    /\ candidate(lines[4]).some
    /\ \A k \in DOMAIN lines : k # 4 => ~candidate(lines[k]).some
    /\ page_number = None

\* C5 happens also where the sub-windows overlap: lines 2 and 3 of a 4-line
\* page are candidates twice
C5_OverlapWitness ==
    /\ ci > 0
    /\ Len(lines) = 4
    /\ Len(check_lines) = 6
    /\ check_lines[2] = check_lines[4]
    /\ check_lines[3] = check_lines[5]

\* C6: when some line's bounding box has fewer than 2 points,
\* create_formatting_blocks never returns a block list: it is left by an
\* exception, raised at the first such line, wherever that line sits.
C6_MalformedBoxRaises ==
    /\ Malformed(lines) # {} => ~GroupReturned
    /\ pc = "group_loop" => \A k \in Malformed(lines) : gi <= k
    /\ Malformed(lines) # {} /\ gi > 0 /\ pc # "group_loop" =>
         /\ GroupRaised
         /\ [call |-> calls, lines |-> lines, page_number |-> page_number,
             blocks |-> None] \in history

\* C6 happens: the exception is in flight for a page whose third line is the
\* malformed one
C6_Witness ==
    /\ pc = "except"
    /\ GroupRaised
    /\ Malformed(lines) = {3}

\* C7: the error create_formatting_blocks signals for a bounding box with
\* fewer than 2 points identifies the line (by its index, counted from 0 or
\* from 1) and reaches the caller as an error, not as a normal result.
C7_ErrorIdentifiesLine ==
    GroupRaised /\ ret.some =>
      /\ ~ret.val.success
      /\ \E k \in Malformed(lines) :
           {ToString(k - 1), ToString(k)} \cap Range(ret.val.error) # {}

\* C8: on every input whose bounding boxes all have at least 2 points both
\* heuristics run to a return and raise nothing; on the empty sequence
\* create_formatting_blocks returns [] and detect_page_number returns None.
C8_WellFormedInputReturns ==
    /\ Malformed(lines) = {} => ~GroupRaised
    /\ pc = "except" => exc.val = EngineError \/ Malformed(lines) # {}
    /\ pc \in {"detect", "scan", "group", "group_loop"} =>
         /\ ENABLED Next
         /\ ci <= Len(check_lines) + 1
         /\ gi <= Len(lines) + 1
    /\ pc = "return" => DetectReturned /\ GroupReturned
    /\ DetectReturned /\ lines = <<>> => page_number = None
    /\ pc = "return" /\ lines = <<>> => formatting_blocks = Some(<<>>)

\* C8 happens: both heuristics have returned on the empty sequence
C8_Witness ==
    /\ pc = "return"
    /\ lines = <<>>
    /\ page_number = None
    /\ formatting_blocks = Some(<<>>)

\* C8 happens also on a well-formed page with a two-point box
C8_TwoPointWitness ==
    /\ pc = "return"
    /\ \E k \in DOMAIN lines : Len(lines[k].bbox) = 2

\* the steps of the two heuristics change nothing but their own locals and
\* the value they return
HeuristicsFrame ==
    pc \in {"detect", "scan"} =>
        UNCHANGED <<ocr_engine, calls, extract_locals, formatting_blocks,
                    group_locals, exc, ret, exit_code>>

GroupingFrame ==
    pc \in {"group", "group_loop"} /\ pc' # "except" =>
        UNCHANGED <<ocr_engine, calls, extract_locals, page_number,
                    detect_locals, exc, ret, exit_code>>

\* calls on equal inputs had equal outcomes
EqualInputsEqualResults ==
    \A g \in history : \A h \in history :
       g.lines = h.lines => g.page_number = h.page_number /\ g.blocks = h.blocks

\* C9: detect_page_number and create_formatting_blocks change neither the
\* input lines nor any state outside their own locals, and calls on equal
\* inputs, in any order among calls on other inputs, return equal results.
C9_PureAndDeterministic ==
    /\ [][HeuristicsFrame /\ GroupingFrame]_vars
    /\ []EqualInputsEqualResults

\* C9 happens: the same lines were passed in the first and in the third call,
\* other lines in between
C9_Witness ==
    \E g \in history : \E h \in history : \E m \in history :
       /\ g.call = 1 /\ m.call = 2 /\ h.call = 3
       /\ g.lines = h.lines
       /\ m.lines # g.lines
       /\ Len(g.lines) = 4

\* C10: extract_text_from_image never raises to its caller and always returns
\* a result with a success flag: an exception while processing the lines gives
\* success False with only an error message; a success True result carries
\* text, confidence, blocks and page_number; main exits with 0 exactly when
\* success is true.
C10_ExtractAlwaysReturns ==
    /\ pc \in {"print", "exited"} => ret.some
    /\ ret.some =>
         /\ "success" \in DOMAIN ret.val
         /\ ret.val.success =>
              {"text", "confidence", "blocks", "page_number"} \subseteq DOMAIN ret.val
         /\ ~ret.val.success => DOMAIN ret.val = {"success", "error"}
    /\ GroupRaised /\ pc \in {"print", "exited"} => ~ret.val.success
    /\ pc = "exited" =>
         /\ exit_code \in {Some(0), Some(1)}
         /\ exit_code = Some(0) <=> ret.val.success

\* C10 happens: the process has exited with 1 after the grouper raised
C10_Witness ==
    /\ pc = "exited"
    /\ GroupRaised
    /\ exit_code = Some(1)
    /\ ret.val.error = <<"OCR processing failed:", "list index out of range">>

====
